---- MODULE Spec2Model ----
(***************************************************************************)
(* Alarmo keypad server: the command/response correlation of               *)
(* POST /api/alarm/updateAlarmState (api/alarm.js), the state handler and  *)
(* the socket.io connection handler of server.js; and the keypad page      *)
(* (public/js/main.js): PIN entry, the arm buttons with their double press *)
(* when sensors are open, and the sensor display.                          *)
(*                                                                         *)
(* Node runs every handler to completion on one thread, so each handler    *)
(* (an HTTP route, a timer callback, one emit of the MQTT client's         *)
(* 'message' event to all its listeners, a socket connection) is one       *)
(* action.                                                                 *)
(***************************************************************************)
EXTENDS Integers, Sequences, FiniteSets, TLC

(* ------------------------------ bounds -------------------------------- *)

\* Number of external events in a run: POST /updateAlarmState requests, MQTT
\* messages delivered to the client and socket.io connections opened, in any mix.
MaxEvents == 3

\* Number of commands the keypad page sends in a run.
MaxSent == 1

\* The most entity ids in one call of the sensor lookup.
MaxIds == 2

\* The most entities the inventory answers with.
MaxInventory == 2

(* ------------------------- program constants -------------------------- *)

\* setTimeout(..., 5000)
ResponseTimeoutMs == 5000

\* The clock advances in steps of one response timeout.
TickMs == ResponseTimeoutMs

\* A JavaScript undefined (a missing body field, an unset app.locals entry,
\* a missing property of a parsed object).
Undefined == "<undefined>"

StateTopic == "alarmo/state"
EventTopic == "alarmo/event"
CommandTopic == "alarmo/command"

\* The id of server.js's own 'message' listener in the client's listener list;
\* the responseHandler of request c has id c.
StateHandler == 0

ReqIds == 1..MaxEvents
SocketIds == 1..MaxEvents

(* ------------------------------ inputs -------------------------------- *)

\* req.body.mode
Modes == {"arm_home", "arm_away", "arm_night", "arm_vacation", "disarm"}

\* req.body.code: missing, empty, or a PIN
Codes == {Undefined, "", "1234"}

\* Payloads Alarmo publishes on alarmo/state.
StatePayloads ==
    {"disarmed", "armed_home", "armed_away", "armed_night", "armed_vacation",
     "armed_custom_bypass", "pending", "arming", "triggered"}

ArmEvents == {"ARM_AWAY", "ARM_HOME", "ARM_NIGHT", "ARM_VACATION", "ARM_CUSTOM_BYPASS"}
RejectEvents ==
    {"FAILED_TO_ARM", "COMMAND_NOT_ALLOWED", "INVALID_CODE_PROVIDED", "NO_CODE_PROVIDED"}

\* The raw text of an event-topic message {"event": e}.
EventJson(e) ==
    CASE e = "ARM_AWAY" -> "{\"event\":\"ARM_AWAY\"}"
      [] e = "ARM_HOME" -> "{\"event\":\"ARM_HOME\"}"
      [] e = "ARM_NIGHT" -> "{\"event\":\"ARM_NIGHT\"}"
      [] e = "ARM_VACATION" -> "{\"event\":\"ARM_VACATION\"}"
      [] e = "ARM_CUSTOM_BYPASS" -> "{\"event\":\"ARM_CUSTOM_BYPASS\"}"
      [] e = "TRIGGER" -> "{\"event\":\"TRIGGER\"}"
      [] e = "FAILED_TO_ARM" -> "{\"event\":\"FAILED_TO_ARM\"}"
      [] e = "COMMAND_NOT_ALLOWED" -> "{\"event\":\"COMMAND_NOT_ALLOWED\"}"
      [] e = "INVALID_CODE_PROVIDED" -> "{\"event\":\"INVALID_CODE_PROVIDED\"}"
      [] e = "NO_CODE_PROVIDED" -> "{\"event\":\"NO_CODE_PROVIDED\"}"
      [] e = "DISARM" -> "{\"event\":\"DISARM\"}"

\* Event-topic payloads: the ten protocol events, an event the handler does not
\* know, an object without an event field, JSON null, and text that is not JSON.
EventPayloads ==
    {EventJson(e) : e \in ArmEvents \cup {"TRIGGER"} \cup RejectEvents \cup {"DISARM"}}
        \cup {"{}", "null", "not json"}

\* The (topic, payload) pairs the broker can deliver: the client subscribes to
\* exactly these two topics.
Messages ==
    ([topic : {StateTopic}, payload : StatePayloads])
        \cup ([topic : {EventTopic}, payload : EventPayloads])

(* ------------------------------ state --------------------------------- *)

VARIABLES
    req,          \* per request: body, hasResponded, responseTimeout, HTTP responses
    listeners,    \* mqttClient's 'message' listeners, in registration order
    published,    \* the calls of mqttClient.publish, in order, each with whether it threw
    alarmState,   \* app.locals.alarmState
    sockets,      \* per socket.io connection: "unused", "connected", "disconnected"
    inbox,        \* per socket: the notifications emitted to it, in order
    nEvents,      \* number of external events so far
    lastState     \* payload of the latest state-topic message delivered, if any

svars == <<req, listeners, published, alarmState, sockets, inbox, nEvents, lastState>>

\* The keypad page (public/js/main.js), a record of
\*   currentCode         the digits entered
\*   pinLength           the page's count of them
\*   pendingArmMode      the arm mode waiting for a code, or null
\*   armButtonPressed    per arm mode: the first press of a double press was made
\*   armButtonTimer      per arm mode: the 5 s timer of the first press
\*   container           the entities-container element: exists, style.display,
\*                       the number of children, how many are open-sensor badges
\*   fetching            a getAndDisplayEntities call waits for /api/sensors/getStates
\*   lastButtonState     the arm buttons are shown
\*   initialStateLoaded  an alarmStateChanged was received since page load
\*   currentAlarmState   the state of the latest alarmStateChanged, or null
\*   stateSound          the sound the latest alarmStateChanged handler run played
\*                       through playAlarmStateSound, or null if it played none
\*   lastNotified        data.state of the latest alarmStateChanged received since
\*                       page load, or null if none was (not a variable of the page)
\*   sent                the commands posted to /api/alarm/updateAlarmState, in order
\*   overrideConfirmed   per arm mode: its button was pressed with open sensors
\*                       displayed while its first press was still in force
VARIABLES page

kvars == <<page>>

\* The call of POST /api/sensors/getStates in progress (api/sensors.js), a
\* record of
\*   phase     "idle", "waiting" (the axios.get of /states is awaited) or "done"
\*   body      req.body.entityIds of the latest call
\*   queries   how many times the latest call queried the inventory
\*   data      response.data of that query, once it has succeeded
\*   res       the response sent, once the call is done
VARIABLES lookup

lvars == <<lookup>>

vars == <<svars, kvars, lvars>>

\* new Date().toISOString(): the reading of the wall clock, which no handler
\* reads back; the clock read is the number of external events handled so far.
Timestamp == nEvents

(* --------------------------- pure helpers ----------------------------- *)

\* Mutant: only a missing value is falsy, the empty string is not.
Truthy_EmptyIsTrue(v) == v # Undefined

\* JavaScript truthiness of a string-or-undefined value: !v is true for
\* undefined and for the empty string.
Truthy(v) == v # Undefined /\ v # ""

\* JSON.parse(message.toString()): the parsed value, or a SyntaxError.
\* kind "object" carries the object's event property (Undefined when absent).
JSONparse(text) ==
    CASE text = "{\"event\":\"ARM_AWAY\"}" -> [kind |-> "object", event |-> "ARM_AWAY"]
      [] text = "{\"event\":\"ARM_HOME\"}" -> [kind |-> "object", event |-> "ARM_HOME"]
      [] text = "{\"event\":\"ARM_NIGHT\"}" -> [kind |-> "object", event |-> "ARM_NIGHT"]
      [] text = "{\"event\":\"ARM_VACATION\"}" -> [kind |-> "object", event |-> "ARM_VACATION"]
      [] text = "{\"event\":\"ARM_CUSTOM_BYPASS\"}" ->
            [kind |-> "object", event |-> "ARM_CUSTOM_BYPASS"]
      [] text = "{\"event\":\"TRIGGER\"}" -> [kind |-> "object", event |-> "TRIGGER"]
      [] text = "{\"event\":\"FAILED_TO_ARM\"}" -> [kind |-> "object", event |-> "FAILED_TO_ARM"]
      [] text = "{\"event\":\"COMMAND_NOT_ALLOWED\"}" ->
            [kind |-> "object", event |-> "COMMAND_NOT_ALLOWED"]
      [] text = "{\"event\":\"INVALID_CODE_PROVIDED\"}" ->
            [kind |-> "object", event |-> "INVALID_CODE_PROVIDED"]
      [] text = "{\"event\":\"NO_CODE_PROVIDED\"}" ->
            [kind |-> "object", event |-> "NO_CODE_PROVIDED"]
      [] text = "{\"event\":\"DISARM\"}" -> [kind |-> "object", event |-> "DISARM"]
      [] text = "{}" -> [kind |-> "object", event |-> Undefined]
      [] text = "null" -> [kind |-> "null", event |-> Undefined]
      [] OTHER -> [kind |-> "SyntaxError", event |-> Undefined]

\* Mutant: only JSON.parse throws; reading the event of null does not.
Throws_SyntaxOnly(parsed) == parsed.kind = "SyntaxError"

\* Whether the try block of responseHandler throws on this payload:
\* JSON.parse throws, or response.event is read from null.
Throws(parsed) == parsed.kind = "SyntaxError" \/ parsed.kind = "null"

\* Mutant: the ARM_AWAY and ARM_HOME cases are swapped and TRIGGER falls to
\* the default.
mapEventToState_Swapped(event) ==
    CASE event = "ARM_AWAY" -> "armed_home"
      [] event = "ARM_HOME" -> "armed_away"
      [] event = "ARM_NIGHT" -> "armed_night"
      [] event = "ARM_VACATION" -> "armed_vacation"
      [] event = "ARM_CUSTOM_BYPASS" -> "armed_custom_bypass"
      [] OTHER -> "unknown"

\* mapEventToState(event)
mapEventToState(event) ==
    CASE event = "ARM_AWAY" -> "armed_away"
      [] event = "ARM_HOME" -> "armed_home"
      [] event = "ARM_NIGHT" -> "armed_night"
      [] event = "ARM_VACATION" -> "armed_vacation"
      [] event = "ARM_CUSTOM_BYPASS" -> "armed_custom_bypass"
      [] event = "TRIGGER" -> "triggered"
      [] OTHER -> "unknown"

\* Mutant: the INVALID_CODE_PROVIDED case is missing and falls to the default.
getErrorMessage_NoInvalidCode(event) ==
    CASE event = "FAILED_TO_ARM" ->
            "Failed to arm the system. Please check if all sensors are closed."
      [] event = "COMMAND_NOT_ALLOWED" -> "Command not allowed in the current state."
      [] event = "NO_CODE_PROVIDED" -> "Security code is required for this operation."
      [] OTHER -> "Failed to change the state of the alarm."

\* getErrorMessage(event)
getErrorMessage(event) ==
    CASE event = "FAILED_TO_ARM" ->
            "Failed to arm the system. Please check if all sensors are closed."
      [] event = "COMMAND_NOT_ALLOWED" -> "Command not allowed in the current state."
      [] event = "INVALID_CODE_PROVIDED" -> "Invalid security code provided."
      [] event = "NO_CODE_PROVIDED" -> "Security code is required for this operation."
      [] OTHER -> "Failed to change the state of the alarm."

\* res.status(status).json({success, message, event, state}); a property the
\* body does not have is Undefined.
Json(status, success, message, event, state) ==
    [status |-> status, success |-> success, message |-> message,
     event |-> event, state |-> state]

\* Mutant: the switch has a DISARM case that answers success, as the arming
\* cases do.
EventResponse_DisarmCase(event) ==
    CASE event \in ArmEvents \cup {"DISARM"} ->
            Json(200, TRUE, Undefined, event, mapEventToState(event))
      [] event = "TRIGGER" -> Json(200, TRUE, Undefined, event, "triggered")
      [] event \in RejectEvents ->
            Json(400, FALSE, getErrorMessage(event), event, Undefined)
      [] OTHER -> Json(400, FALSE, "Unrecognized alarm event received", event, Undefined)

\* The body responseHandler sends for a parsed event-topic message
\* (the switch on response.event).
EventResponse(event) ==
    CASE event \in ArmEvents ->
            Json(200, TRUE, Undefined, event, mapEventToState(event))
      [] event = "TRIGGER" -> Json(200, TRUE, Undefined, event, "triggered")
      [] event \in RejectEvents ->
            Json(400, FALSE, getErrorMessage(event), event, Undefined)
      [] OTHER -> Json(400, FALSE, "Unrecognized alarm event received", event, Undefined)

ValidationResponse == Json(400, FALSE, "Security code is required", Undefined, Undefined)
TimeoutResponse ==
    Json(504, FALSE, "Timeout waiting for alarm system response", "TIMEOUT", Undefined)
ParseErrorResponse ==
    Json(500, FALSE, "Failed to parse alarm system response", Undefined, Undefined)
PublishErrorResponse ==
    Json(500, FALSE, "Failed to send command to alarm system", Undefined, Undefined)
\* Mutant: the state of the DISARMED response comes from mapEventToState, which
\* has no case for it.
DisarmedResponse_Mapped == Json(200, TRUE, Undefined, "DISARMED", mapEventToState("DISARMED"))
DisarmedResponse == Json(200, TRUE, Undefined, "DISARMED", "disarmed")

\* topic.startsWith('alarmo/') and topic.endsWith('/state'), on the topics the
\* client subscribes to.
StartsWithAlarmo(topic) == topic \in {"alarmo/state", "alarmo/event"}
EndsWithState(topic) == topic \in {"alarmo/state"}

\* Mutant: every topic under alarmo/ counts as a state topic.
IsStateTopic_AnyAlarmo(topic) == StartsWithAlarmo(topic)

\* server.js's test for a state message.
IsStateTopic(topic) ==
    topic = "alarmo/state" \/ (StartsWithAlarmo(topic) /\ EndsWithState(topic))

\* Mutant: the notification carries app.locals.alarmState as it is read when
\* the notification is built, before the handler's assignment takes effect.
StateChanged_Stale(topic, state) ==
    [name |-> "alarmStateChanged", topic |-> topic, state |-> alarmState,
     timestamp |-> Timestamp, mode |-> Undefined, error |-> Undefined]

\* The notifications of the push channel.
StateChanged(topic, state) ==
    [name |-> "alarmStateChanged", topic |-> topic, state |-> state,
     timestamp |-> Timestamp, mode |-> Undefined, error |-> Undefined]
\* Mutant: alarmUpdateTimeout is emitted without the mode.
UpdateTimeout_NoMode(mode) ==
    [name |-> "alarmUpdateTimeout", topic |-> Undefined, state |-> Undefined,
     timestamp |-> Undefined, mode |-> Undefined, error |-> Undefined]
UpdateTimeout(mode) ==
    [name |-> "alarmUpdateTimeout", topic |-> Undefined, state |-> Undefined,
     timestamp |-> Undefined, mode |-> mode, error |-> Undefined]
\* Mutant: alarmUpdateError is emitted without the error code.
UpdateError_NoCode(error) ==
    [name |-> "alarmUpdateError", topic |-> Undefined, state |-> Undefined,
     timestamp |-> Undefined, mode |-> Undefined, error |-> Undefined]
\* io.emit('alarmUpdateError', {error, message})
UpdateError(error) ==
    [name |-> "alarmUpdateError", topic |-> Undefined, state |-> Undefined,
     timestamp |-> Undefined, mode |-> Undefined, error |-> error]

\* Mutant: the notification reaches every socket that ever connected, the
\* disconnected ones included.
ioEmit_Disconnected(box, socks, n) ==
    [o \in SocketIds |-> IF socks[o] # "unused" THEN Append(box[o], n) ELSE box[o]]

\* io.emit(n): n is sent to every connected socket.
ioEmit(box, socks, n) ==
    [o \in SocketIds |-> IF socks[o] = "connected" THEN Append(box[o], n) ELSE box[o]]

\* Mutant: the replay is sent with io.emit, to every connected socket.
socketEmit_Broadcast(box, o, n) ==
    [p \in SocketIds |-> IF p = o \/ sockets[p] = "connected" THEN Append(box[p], n) ELSE box[p]]

\* socket.emit(n): n is sent to socket o alone.
socketEmit(box, o, n) == [box EXCEPT ![o] = Append(@, n)]

\* Mutant: removeListener leaves the listener registered.
removeListener_Leak(ls, h) == ls

\* emitter.removeListener('message', h): the first registration of h is dropped.
RECURSIVE removeListener(_, _)
removeListener(ls, h) ==
    IF ls = <<>> THEN <<>>
    ELSE IF Head(ls) = h THEN Tail(ls)
    ELSE <<Head(ls)>> \o removeListener(Tail(ls), h)

\* Mutant: the cached value is returned as it is, with no default.
getState_NoDefault(cache) == [state |-> cache]

\* router.get('/state'): res.json({ state: req.app.locals.alarmState || 'unknown' })
getState(cache) == [state |-> IF Truthy(cache) THEN cache ELSE "unknown"]

(* ----------------------------- requests ------------------------------- *)

\* A request not yet made.
NoRequest ==
    [issued |-> FALSE, mode |-> Undefined, code |-> Undefined, hasResponded |-> FALSE,
     responseTimeout |-> "none", remaining |-> 0, res |-> <<>>]

\* Mutant: the timer callback may run as soon as the timer is armed.
TimerDue_Early(r) == r.responseTimeout = "armed"

\* The timer of request r has run out: Node may run its callback.
TimerDue(r) == r.responseTimeout = "armed" /\ r.remaining = 0

\* A request's handler has sent a response.
Settled(r) == r.res # <<>>

\* A request has been accepted and has not been answered.
Pending(r) == r.issued /\ r.res = <<>>

\* Mutant: settling forgets clearTimeout(responseTimeout).
Settle_NoClearTimeout(w, c, response) ==
    [w EXCEPT !.req[c].hasResponded = TRUE,
              !.req[c].res = Append(@, response),
              !.listeners = removeListener(@, c)]

\* The effect on the part of the state the handlers of one 'message' emit share:
\* w = [req, listeners, inbox].
\* hasResponded = true; clearTimeout(responseTimeout);
\* mqttClient.removeListener('message', responseHandler); res.status().json()
Settle(w, c, response) ==
    [w EXCEPT !.req[c].hasResponded = TRUE,
              !.req[c].responseTimeout = IF @ = "armed" THEN "cleared" ELSE @,
              !.req[c].remaining = 0,
              !.req[c].res = Append(@, response),
              !.listeners = removeListener(@, c)]

\* Mutant: a rejection event does not answer the request, which waits on for
\* a state message or its timer.
eventBranch_RejectionsWait(w, c, socks, topic, message) ==
    IF topic = EventTopic /\ ~Throws(JSONparse(message))
        /\ JSONparse(message).event \notin RejectEvents
        /\ ~w.req[c].hasResponded
    THEN Settle(w, c, EventResponse(JSONparse(message).event))
    ELSE w

\* responseHandler, if (topic === 'alarmo/event') { ... }: its effect on w.
eventBranch(w, c, socks, topic, message) ==
    IF topic = EventTopic
    THEN LET response == JSONparse(message) IN
         IF Throws(response)
         THEN \* catch (e)
              IF ~w.req[c].hasResponded
              THEN LET s == Settle(w, c, ParseErrorResponse) IN
                   [s EXCEPT !.inbox = ioEmit(@, socks, UpdateError("PARSE_ERROR"))]
              ELSE w
         ELSE IF ~w.req[c].hasResponded
              THEN Settle(w, c, EventResponse(response.event))
              ELSE w
    ELSE w

\* Mutant: the state branch also answers on the armed states, as a
\* confirmation of an arm command would.
stateBranch_ArmedToo(w, c, topic, message) ==
    IF topic = StateTopic
        /\ message \in {"disarmed", "armed_home", "armed_away", "armed_night",
                        "armed_vacation"}
    THEN Settle(w, c, Json(200, TRUE, Undefined, "DISARMED", message))
    ELSE w

\* responseHandler, if (topic === 'alarmo/state') { ... }: its effect on w.
\* Neither hasResponded nor mode is tested.
stateBranch(w, c, topic, message) ==
    IF topic = StateTopic /\ message = "disarmed"
    THEN Settle(w, c, DisarmedResponse)
    ELSE w

\* responseHandler(topic, message) of request c: the two branches in turn.
responseHandler(w, c, socks, topic, message) ==
    stateBranch(eventBranch(w, c, socks, topic, message), c, topic, message)

\* Mutant: the state handler stores the state and emits nothing.
stateHandler_NoEmit(a, socks, topic, message) ==
    IF IsStateTopic(topic) THEN [a EXCEPT !.alarmState = message] ELSE a

\* server.js's 'message' listener: its effect on [alarmState, inbox].
stateHandler(a, socks, topic, message) ==
    IF IsStateTopic(topic)
    THEN [alarmState |-> message,
          inbox |-> ioEmit(a.inbox, socks, StateChanged(topic, message))]
    ELSE a

\* Mutant: the message goes to the responseHandler registered first only, as
\* if a reply belonged to the oldest pending command.
emitMessage_FirstOnly(w, hs, socks, topic, message) ==
    LET rs == SelectSeq(hs, LAMBDA h : h # StateHandler) IN
    IF rs = <<>> THEN w ELSE responseHandler(w, Head(rs), socks, topic, message)

\* emitter.emit('message', topic, message): the listeners registered when the
\* emit starts are called in registration order.
RECURSIVE emitMessage(_, _, _, _, _)
emitMessage(w, hs, socks, topic, message) ==
    IF hs = <<>> THEN w
    ELSE emitMessage(
            IF Head(hs) = StateHandler THEN w
            ELSE responseHandler(w, Head(hs), socks, topic, message),
            Tail(hs), socks, topic, message)

(* ------------------------------ keypad -------------------------------- *)

\* A JavaScript null.
Null == "<null>"

\* The two arm buttons of the page.
ArmModes == {"arm_home", "arm_away"}

\* The keys of the keypad: one digit key, clear and enter.
Digits == {"1"}
Keys == Digits \cup {"clear", "enter"}

\* data.state of the alarmStateChanged notifications the page is sent.
KeypadStates == {"disarmed", "armed_away", "triggered"}

\* What a call of /api/sensors/getStates gives the page: a failure, or a
\* response with this many sensors in state 'on'.
FetchResults == {"error", "0", "1", "2"}
OpenCount(result) == CASE result = "1" -> 1 [] result = "2" -> 2 [] OTHER -> 0

\* currentCode += key, for the digit key 1.
Concat(code, key) ==
    CASE code = "" -> "1"
      [] code = "1" -> "11"
      [] code = "11" -> "111"
      [] code = "111" -> "1111"
      [] OTHER -> "11111"

\* code.length
Length(code) ==
    CASE code = "" -> 0
      [] code = "1" -> 1
      [] code = "11" -> 2
      [] code = "111" -> 3
      [] code = "1111" -> 4
      [] OTHER -> 5

\* JavaScript truthiness of a string-or-null value.
NotFalsy(v) == v # Null /\ Truthy(v)

\* The page's test for open sensors being displayed:
\* container && container.style.display !== 'none' && container.children.length > 0
hasOpenSensors ==
    /\ page.container.exists
    /\ page.container.display # "none"
    /\ page.container.children > 0

\* armSystem(mode, code): the POST of {mode, code}.
armSystem(k, mode, code) ==
    [k EXCEPT !.sent = Append(@, [mode |-> mode, code |-> code])]

\* disarmWithCode(code): the POST of {mode: 'disarm', code}.
disarmWithCode(k, code) ==
    [k EXCEPT !.sent = Append(@, [mode |-> "disarm", code |-> code])]

\* requestArmWithMode(mode, code), with open the value of its hasOpenSensors.
requestArmWithMode(k, open, mode, code) ==
    IF open /\ ~k.armButtonPressed[mode]
    THEN \* first press: warn, start the 5 s timer, return
         [k EXCEPT !.armButtonPressed[mode] = TRUE, !.armButtonTimer[mode] = "armed"]
    ELSE LET \* second press: clearTimeout, armButtonPressed[mode] = false
             k1 == IF open
                   THEN [k EXCEPT !.armButtonTimer[mode] = IF @ = "armed" THEN "stopped" ELSE @,
                                  !.armButtonPressed[mode] = FALSE]
                   ELSE k
             \* code = providedCode || (currentCode.length >= 4 ? currentCode : null)
             code1 == IF open
                      THEN IF NotFalsy(code) THEN code
                           ELSE IF Length(k.currentCode) >= 4 THEN k.currentCode ELSE Null
                      ELSE code
         IN  IF ~NotFalsy(code1)
             THEN \* no code: remember the mode and wait for it
                  IF ~open \/ ~k1.armButtonPressed[mode]
                  THEN [k1 EXCEPT !.pendingArmMode = mode, !.currentCode = "",
                                  !.pinLength = 0]
                  ELSE [k1 EXCEPT !.pendingArmMode = mode]
             ELSE armSystem(k1, mode, code1)

\* Mutant: the button takes the entered code and empties it, but leaves
\* pinLength as it was.
handleArmButtonPress_KeepsLength(k, open, mode) ==
    IF open /\ ~k.armButtonPressed[mode]
    THEN requestArmWithMode(k, open, mode,
                            IF Length(k.currentCode) >= 4 THEN k.currentCode ELSE Null)
    ELSE IF NotFalsy(k.currentCode) /\ k.pinLength >= 4
         THEN requestArmWithMode([k EXCEPT !.currentCode = ""], open, mode, k.currentCode)
         ELSE requestArmWithMode(k, open, mode, Null)

\* handleArmButtonPress(mode)
handleArmButtonPress(k, open, mode) ==
    IF open /\ ~k.armButtonPressed[mode]
    THEN requestArmWithMode(k, open, mode,
                            IF Length(k.currentCode) >= 4 THEN k.currentCode ELSE Null)
    ELSE IF NotFalsy(k.currentCode) /\ k.pinLength >= 4
         THEN requestArmWithMode([k EXCEPT !.currentCode = "", !.pinLength = 0],
                                 open, mode, k.currentCode)
         ELSE requestArmWithMode(k, open, mode, Null)

\* Mutant: enter sends the pending arm mode and keeps it pending.
handleKeyPress_KeepsPending(k, key) ==
    IF key = "clear"
    THEN [k EXCEPT !.currentCode = "", !.pinLength = 0]
    ELSE IF key = "enter"
    THEN LET k1 == IF NotFalsy(k.currentCode)
                   THEN IF NotFalsy(k.pendingArmMode)
                        THEN armSystem(k, k.pendingArmMode, k.currentCode)
                        ELSE disarmWithCode(k, k.currentCode)
                   ELSE k
         IN  [k1 EXCEPT !.currentCode = "", !.pinLength = 0]
    ELSE IF k.pinLength < 4
         THEN [k EXCEPT !.currentCode = Concat(@, key), !.pinLength = @ + 1]
         ELSE k

\* handleKeyPress(key)
handleKeyPress(k, key) ==
    IF key = "clear"
    THEN [k EXCEPT !.currentCode = "", !.pinLength = 0]
    ELSE IF key = "enter"
    THEN LET k1 == IF NotFalsy(k.currentCode)
                   THEN IF NotFalsy(k.pendingArmMode)
                        THEN [armSystem(k, k.pendingArmMode, k.currentCode)
                                EXCEPT !.pendingArmMode = Null]
                        ELSE disarmWithCode(k, k.currentCode)
                   ELSE k
         IN  [k1 EXCEPT !.currentCode = "", !.pinLength = 0]
    ELSE IF k.pinLength < 4
         THEN [k EXCEPT !.currentCode = Concat(@, key), !.pinLength = @ + 1]
         ELSE k

\* updateArmButtonsState(state): whether the arm buttons are shown after it.
ShouldShowButtons(state) == state = "disarmed"

\* The page after DOMContentLoaded: nothing entered, the arm buttons shown by
\* updateArmButtonsState('disarmed'), no entities-container yet.
KeypadInit ==
    page = [currentCode |-> "",
            pinLength |-> 0,
            pendingArmMode |-> Null,
            armButtonPressed |-> [m \in ArmModes |-> FALSE],
            armButtonTimer |-> [m \in ArmModes |-> "none"],
            container |-> [exists |-> FALSE, display |-> "", children |-> 0, sensors |-> 0],
            fetching |-> FALSE,
            lastButtonState |-> TRUE,
            initialStateLoaded |-> FALSE,
            currentAlarmState |-> Null,
            stateSound |-> Null,
            lastNotified |-> Null,
            sent |-> <<>>,
            overrideConfirmed |-> [m \in ArmModes |-> FALSE]]

(* ------------------------------ sensors ------------------------------- *)

\* The entity ids a page asks for, and the entities the inventory may hold:
\* the motion sensor is asked for but is not in the inventory.
EntityIds == {"binary_sensor.door", "binary_sensor.window", "binary_sensor.motion"}
Entities ==
    [entity_id : {"binary_sensor.door", "binary_sensor.window"}, state : {"on", "off"}]

\* The sequences over S of length at most n.
SeqsUpTo(S, n) == UNION {[1..k -> S] : k \in 0..n}

\* req.body.entityIds: missing, null, a string, or an array of ids.
Bodies ==
    {[kind |-> k, ids |-> <<>>] : k \in {"undefined", "null", "string"}}
        \cup {[kind |-> "array", ids |-> ids] : ids \in SeqsUpTo(EntityIds, MaxIds)}

\* response.data of GET /states
Inventories == SeqsUpTo(Entities, MaxInventory)

\* !entityIds || !Array.isArray(entityIds)
InvalidBody(body) == body.kind \in {"undefined", "null"} \/ body.kind # "array"

\* entityIds.includes(id)
Includes(ids, id) == \E i \in DOMAIN ids : ids[i] = id

\* Mutant: every entity of the inventory is returned.
filterEntities_All(data, ids) == data

\* response.data.filter(entity => entityIds.includes(entity.entity_id))
filterEntities(data, ids) == SelectSeq(data, LAMBDA entity : Includes(ids, entity.entity_id))

\* The responses of the route: res.status(400).json({error}),
\* res.json({entities}) and res.status(500).json({error, message}).
NoSensorResponse == [status |-> 0, error |-> Undefined, has |-> "nothing", entities |-> <<>>]
InvalidRequestResponse ==
    [status |-> 400, error |-> "Invalid request. Expected entityIds array in request body.",
     has |-> "error", entities |-> <<>>]
EntitiesResponse(entities) ==
    [status |-> 200, error |-> Undefined, has |-> "entities", entities |-> entities]
FetchErrorResponse ==
    [status |-> 500, error |-> "Failed to fetch entity states", has |-> "error",
     entities |-> <<>>]

SensorsInit ==
    lookup = [phase |-> "idle", body |-> [kind |-> "undefined", ids |-> <<>>],
              queries |-> 0, data |-> <<>>, res |-> NoSensorResponse]

(* ------------------------------ actions ------------------------------- *)

Init ==
    /\ req = [c \in ReqIds |-> NoRequest]
    /\ listeners = <<StateHandler>>
    /\ published = <<>>
    /\ alarmState = Undefined
    /\ sockets = [o \in SocketIds |-> "unused"]
    /\ inbox = [o \in SocketIds |-> <<>>]
    /\ nEvents = 0
    /\ lastState = Undefined
    /\ KeypadInit
    /\ SensorsInit

\* Mutant: the command and the code change places in the payload.
Command_Swapped(c, mode, code, threw) ==
    [topic |-> CommandTopic, command |-> code, code |-> mode, by |-> c, threw |-> threw]

\* mqttClient.publish('alarmo/command', JSON.stringify({command: mode, code: code}))
\* called by request c; threw says whether the call threw.
Command(c, mode, code, threw) ==
    [topic |-> CommandTopic, command |-> mode, code |-> code, by |-> c, threw |-> threw]

\* Mutant: the catch block forgets clearTimeout(responseTimeout).
publishCatch_NoClearTimeout(r) ==
    [r EXCEPT !.hasResponded = TRUE, !.res = <<PublishErrorResponse>>]

\* catch (error) around the publish: its effect on the request's closure.
\* clearTimeout(responseTimeout); hasResponded = true; res.status(500).json()
publishCatch(r) ==
    [r EXCEPT !.responseTimeout = "cleared",
              !.remaining = 0,
              !.hasResponded = TRUE,
              !.res = <<PublishErrorResponse>>]

\* Mutant: the publish comes first and the handler returns before
\* mqttClient.on('message', responseHandler) is reached.
UpdateAlarmState_PublishFirst(c, mode, code, publishThrows) ==
    /\ UNCHANGED <<kvars, lvars>>
    /\ ~req[c].issued
    /\ \A d \in ReqIds : d < c => req[d].issued
    /\ nEvents < MaxEvents
    /\ nEvents' = nEvents + 1
    /\ UNCHANGED <<alarmState, sockets, lastState>>
    /\ IF ~Truthy(code)
       THEN /\ req' = [req EXCEPT ![c] =
                        [NoRequest EXCEPT !.issued = TRUE, !.mode = mode, !.code = code,
                                          !.res = <<ValidationResponse>>]]
            /\ UNCHANGED <<listeners, published, inbox>>
       ELSE LET r == [NoRequest EXCEPT !.issued = TRUE, !.mode = mode, !.code = code,
                                       !.responseTimeout = "armed",
                                       !.remaining = ResponseTimeoutMs]
            IN  /\ published' = Append(published, Command(c, mode, code, publishThrows))
                /\ IF publishThrows
                   THEN \* catch (error)
                        /\ req' = [req EXCEPT ![c] = publishCatch(r)]
                        /\ listeners' = removeListener(Append(listeners, c), c)
                        /\ inbox' = ioEmit(inbox, sockets, UpdateError("MQTT_PUBLISH_ERROR"))
                   ELSE /\ req' = [req EXCEPT ![c] = r]
                        /\ listeners' = listeners
                        /\ UNCHANGED inbox

\* router.post('/updateAlarmState'): request c with body {mode, code};
\* publishThrows says whether mqttClient.publish throws.
UpdateAlarmState(c, mode, code, publishThrows) ==
    /\ UNCHANGED <<kvars, lvars>>
    /\ ~req[c].issued
    /\ \A d \in ReqIds : d < c => req[d].issued
    /\ nEvents < MaxEvents
    /\ nEvents' = nEvents + 1
    /\ UNCHANGED <<alarmState, sockets, lastState>>
    /\ IF ~Truthy(code)
       THEN /\ req' = [req EXCEPT ![c] =
                        [NoRequest EXCEPT !.issued = TRUE, !.mode = mode, !.code = code,
                                          !.res = <<ValidationResponse>>]]
            /\ UNCHANGED <<listeners, published, inbox>>
       ELSE LET r == [NoRequest EXCEPT !.issued = TRUE, !.mode = mode, !.code = code,
                                       !.responseTimeout = "armed",
                                       !.remaining = ResponseTimeoutMs]
            IN  /\ published' = Append(published, Command(c, mode, code, publishThrows))
                /\ IF publishThrows
                   THEN \* catch (error)
                        /\ req' = [req EXCEPT ![c] = publishCatch(r)]
                        /\ listeners' = removeListener(Append(listeners, c), c)
                        /\ inbox' = ioEmit(inbox, sockets, UpdateError("MQTT_PUBLISH_ERROR"))
                   ELSE /\ req' = [req EXCEPT ![c] = r]
                        /\ listeners' = Append(listeners, c)
                        /\ UNCHANGED inbox

\* Mutant: the timeout callback drops every responseHandler and every timer,
\* not only its own.
ResponseTimeout_DropsAll(c) ==
    /\ UNCHANGED <<kvars, lvars>>
    /\ TimerDue(req[c])
    /\ UNCHANGED <<published, alarmState, sockets, nEvents, lastState>>
    /\ req' = [d \in ReqIds |->
                IF d = c
                THEN [req[d] EXCEPT !.responseTimeout = "fired", !.hasResponded = TRUE,
                                    !.res = IF req[c].hasResponded THEN @
                                            ELSE Append(@, TimeoutResponse)]
                ELSE [req[d] EXCEPT !.responseTimeout = IF @ = "armed" THEN "cleared" ELSE @,
                                    !.remaining = 0]]
    /\ listeners' = <<StateHandler>>
    /\ inbox' = IF req[c].hasResponded THEN inbox
                ELSE ioEmit(inbox, sockets, UpdateTimeout(req[c].mode))

\* The setTimeout callback of request c runs.
ResponseTimeout(c) ==
    /\ UNCHANGED <<kvars, lvars>>
    /\ TimerDue(req[c])
    /\ UNCHANGED <<published, alarmState, sockets, nEvents, lastState>>
    /\ IF ~req[c].hasResponded
       THEN /\ req' = [req EXCEPT ![c].responseTimeout = "fired",
                                  ![c].hasResponded = TRUE,
                                  ![c].res = Append(@, TimeoutResponse)]
            /\ listeners' = removeListener(listeners, c)
            /\ inbox' = ioEmit(inbox, sockets, UpdateTimeout(req[c].mode))
       ELSE /\ req' = [req EXCEPT ![c].responseTimeout = "fired"]
            /\ UNCHANGED <<listeners, inbox>>

\* Mutant: while a responseHandler is registered it is the client's only
\* 'message' listener; server.js's state handler is not called.
MqttMessage_HandlerReplaced(topic, message) ==
    /\ UNCHANGED <<kvars, lvars>>
    /\ nEvents < MaxEvents
    /\ nEvents' = nEvents + 1
    /\ LET a == IF Len(listeners) > 1
                THEN [alarmState |-> alarmState, inbox |-> inbox]
                ELSE stateHandler([alarmState |-> alarmState, inbox |-> inbox],
                                  sockets, topic, message)
           w == emitMessage([req |-> req, listeners |-> listeners, inbox |-> a.inbox],
                            listeners, sockets, topic, message)
       IN  /\ alarmState' = a.alarmState
           /\ req' = w.req
           /\ listeners' = w.listeners
           /\ inbox' = w.inbox
    /\ lastState' = IF topic = StateTopic THEN message ELSE lastState
    /\ UNCHANGED <<published, sockets>>

\* The MQTT client emits 'message' for one delivered message: server.js's state
\* handler first, then the responseHandler of every request still listening.
MqttMessage(topic, message) ==
    /\ UNCHANGED <<kvars, lvars>>
    /\ nEvents < MaxEvents
    /\ nEvents' = nEvents + 1
    /\ LET a == stateHandler([alarmState |-> alarmState, inbox |-> inbox],
                             sockets, topic, message)
           w == emitMessage([req |-> req, listeners |-> listeners, inbox |-> a.inbox],
                            listeners, sockets, topic, message)
       IN  /\ alarmState' = a.alarmState
           /\ req' = w.req
           /\ listeners' = w.listeners
           /\ inbox' = w.inbox
    /\ lastState' = IF topic = StateTopic THEN message ELSE lastState
    /\ UNCHANGED <<published, sockets>>

\* io.on('connection'): socket o connects.
Connection(o) ==
    /\ UNCHANGED <<kvars, lvars>>
    /\ sockets[o] = "unused"
    /\ \A p \in SocketIds : p < o => sockets[p] # "unused"
    /\ nEvents < MaxEvents
    /\ nEvents' = nEvents + 1
    /\ sockets' = [sockets EXCEPT ![o] = "connected"]
    /\ inbox' = IF Truthy(alarmState)
                THEN socketEmit(inbox, o, StateChanged(StateTopic, alarmState))
                ELSE inbox
    /\ UNCHANGED <<req, listeners, published, alarmState, lastState>>

\* socket.on('disconnect'): socket o leaves the set io.emit reaches.
Disconnect(o) ==
    /\ UNCHANGED <<kvars, lvars>>
    /\ sockets[o] = "connected"
    /\ sockets' = [sockets EXCEPT ![o] = "disconnected"]
    /\ UNCHANGED <<req, listeners, published, alarmState, inbox, nEvents, lastState>>

\* TickMs of time pass: every armed timer comes that much closer to being due.
Tick ==
    /\ UNCHANGED <<kvars, lvars>>
    /\ \E c \in ReqIds : req[c].responseTimeout = "armed" /\ req[c].remaining > 0
    /\ req' = [c \in ReqIds |->
                IF req[c].responseTimeout = "armed"
                THEN [req[c] EXCEPT !.remaining = IF @ > TickMs THEN @ - TickMs ELSE 0]
                ELSE req[c]]
    /\ UNCHANGED <<listeners, published, alarmState, sockets, inbox, nEvents, lastState>>

Next ==
    \/ \E c \in ReqIds, mode \in Modes, code \in Codes, publishThrows \in BOOLEAN :
            UpdateAlarmState(c, mode, code, publishThrows)
    \/ \E c \in ReqIds : ResponseTimeout(c)
    \/ \E m \in Messages : MqttMessage(m.topic, m.payload)
    \/ \E o \in SocketIds : Connection(o)
    \/ \E o \in SocketIds : Disconnect(o)
    \/ Tick

Spec == Init /\ [][Next]_vars

\* Node runs a due timer callback and the clock keeps advancing.
Fairness ==
    /\ WF_vars(Tick)
    /\ \A c \in ReqIds : WF_vars(ResponseTimeout(c))

FairSpec == Spec /\ Fairness


(* --------------------------- keypad actions --------------------------- *)

\* A keypad key is touched or clicked.
KeyPress(key) ==
    /\ Len(handleKeyPress(page, key).sent) <= MaxSent
    /\ page' = handleKeyPress(page, key)
    /\ UNCHANGED <<svars, lvars>>

\* An arm button, which is shown, is touched or clicked.
ArmButtonPress(mode) ==
    /\ page.lastButtonState
    /\ Len(handleArmButtonPress(page, hasOpenSensors, mode).sent) <= MaxSent
    /\ page' = [handleArmButtonPress(page, hasOpenSensors, mode) EXCEPT
                  !.overrideConfirmed[mode] =
                      @ \/ (hasOpenSensors /\ page.armButtonPressed[mode])]
    /\ UNCHANGED <<svars, lvars>>

\* The 5 s after a first press have passed: the callback of armButtonTimer[mode].
ArmButtonTimeout(mode) ==
    /\ page.armButtonTimer[mode] = "armed"
    /\ page' = [page EXCEPT !.armButtonTimer[mode] = "stopped",
                            !.armButtonPressed[mode] = FALSE]
    /\ UNCHANGED <<svars, lvars>>

\* getAndDisplayEntities up to its await: the container is created or
\* emptied and the fetch is started (one call at a time).
GetAndDisplayEntities ==
    /\ ~page.fetching
    /\ page' = [page EXCEPT
                  !.fetching = TRUE,
                  !.container =
                      IF @.exists
                      THEN [@ EXCEPT !.children = 0, !.sensors = 0]
                      ELSE [exists |-> TRUE, display |-> "", children |-> 0, sensors |-> 0]]
    /\ UNCHANGED <<svars, lvars>>

\* updateArmButtonsForOpenSensors(openSensorsPresent): with no open sensor
\* both first presses are forgotten and their timers cleared.
updateArmButtonsForOpenSensors(p, openSensorsPresent) ==
    IF openSensorsPresent THEN p
    ELSE [p EXCEPT !.armButtonPressed = [m \in ArmModes |-> FALSE],
                   !.armButtonTimer = [m \in ArmModes |->
                                          IF @[m] = "armed" THEN "stopped" ELSE @[m]]]

\* getAndDisplayEntities after its await: the open sensors are shown, or the
\* container hidden when there is none, and updateArmButtonsForOpenSensors
\* runs; a failure shows the one 'Sensor Error' badge.
EntitiesFetched(result) ==
    /\ page.fetching
    /\ LET n == OpenCount(result)
           p == [page EXCEPT !.fetching = FALSE] IN
       page' = IF result = "error"
               THEN [p EXCEPT !.container.children = @ + 1, !.container.display = "flex"]
               ELSE updateArmButtonsForOpenSensors(
                      IF n > 0
                      THEN [p EXCEPT !.container.children = @ + n + (IF n > 1 THEN 1 ELSE 0),
                                     !.container.sensors = @ + n,
                                     !.container.display = "flex"]
                      ELSE [p EXCEPT !.container.display = "none"],
                      n > 0)
    /\ UNCHANGED <<svars, lvars>>

\* updateAlarmState(state) -> updateArmButtonsState(state): the arm buttons
\* are shown only when disarmed, and a pending arm mode is dropped otherwise.
updateArmButtonsState(p, state) ==
    [p EXCEPT !.lastButtonState = ShouldShowButtons(state),
              !.pendingArmMode = IF state # "disarmed" THEN Null ELSE @]

\* playAlarmStateSound(state): the sound it plays, or null for a state with
\* no sound.
playAlarmStateSound(state) ==
    CASE state \in {"armed_away", "armed_home", "armed_night", "armed_vacation"} -> "armed"
      [] state = "disarmed" -> "disarmed"
      [] state = "triggered" -> "triggered"
      [] OTHER -> Null

\* Mutant: every notification counts as a state change.
isActualStateChange_Always(k, state) == TRUE

\* const isActualStateChange = currentAlarmState !== data.state
isActualStateChange(k, state) == k.currentAlarmState # state

\* socket.on('alarmStateChanged'), with data.state = state.
AlarmStateChanged(state) ==
    /\ page' = updateArmButtonsState(
                  [page EXCEPT !.stateSound =
                                   IF page.initialStateLoaded /\ isActualStateChange(page, state)
                                   THEN playAlarmStateSound(state)
                                   ELSE Null,
                               !.initialStateLoaded = TRUE,
                               !.currentAlarmState = state,
                               !.lastNotified = state],
                  state)
    /\ UNCHANGED <<svars, lvars>>

\* socket.on('alarmUpdateError')
AlarmUpdateError ==
    /\ page' = [page EXCEPT !.pendingArmMode = Null]
    /\ UNCHANGED <<svars, lvars>>

\* socket.on('alarmUpdateTimeout')
AlarmUpdateTimeout ==
    /\ page' = [page EXCEPT !.pendingArmMode = Null]
    /\ UNCHANGED <<svars, lvars>>

\* socket.on('disconnect'): updateAlarmState('Unknown')
SocketDisconnect ==
    /\ page' = updateArmButtonsState(page, "Unknown")
    /\ UNCHANGED <<svars, lvars>>

KeypadNext ==
    \/ \E key \in Keys : KeyPress(key)
    \/ \E mode \in ArmModes : ArmButtonPress(mode)
    \/ \E mode \in ArmModes : ArmButtonTimeout(mode)
    \/ GetAndDisplayEntities
    \/ \E result \in FetchResults : EntitiesFetched(result)
    \/ \E state \in KeypadStates : AlarmStateChanged(state)
    \/ AlarmUpdateError
    \/ AlarmUpdateTimeout
    \/ SocketDisconnect

KeypadSpec == Init /\ [][KeypadNext]_vars

\* router.post('/getStates') up to the await: a call with req.body.entityIds =
\* body, made when no other call is in progress.
GetStates(body) ==
    /\ lookup.phase # "waiting"
    /\ lookup' =
         IF InvalidBody(body)
         THEN [phase |-> "done", body |-> body, queries |-> 0, data |-> <<>>,
               res |-> InvalidRequestResponse]
         ELSE IF Len(body.ids) = 0
         THEN [phase |-> "done", body |-> body, queries |-> 0, data |-> <<>>,
               res |-> EntitiesResponse(<<>>)]
         ELSE [phase |-> "waiting", body |-> body, queries |-> 1, data |-> <<>>,
               res |-> NoSensorResponse]
    /\ UNCHANGED <<svars, kvars>>

\* The axios.get resolves with response.data = data: filter and answer.
StatesFetched(data) ==
    /\ lookup.phase = "waiting"
    /\ lookup' = [lookup EXCEPT !.phase = "done", !.data = data,
                                !.res = EntitiesResponse(filterEntities(data, lookup.body.ids))]
    /\ UNCHANGED <<svars, kvars>>

\* The axios.get rejects: catch (error).
StatesFetchFailed ==
    /\ lookup.phase = "waiting"
    /\ lookup' = [lookup EXCEPT !.phase = "done", !.res = FetchErrorResponse]
    /\ UNCHANGED <<svars, kvars>>

SensorsNext ==
    \/ \E body \in Bodies : GetStates(body)
    \/ \E data \in Inventories : StatesFetched(data)
    \/ StatesFetchFailed

SensorsSpec == Init /\ [][SensorsNext]_vars

(* ------------------------------ claims -------------------------------- *)

\* The requests that have a responseHandler registered on the MQTT client.
Listening == {listeners[i] : i \in DOMAIN listeners} \ {StateHandler}

\* The requests whose command was published.
Published == {published[i].by : i \in {j \in DOMAIN published : ~published[j].threw}}

\* Socket o has been sent notification n.
Received(o, n) == \E i \in DOMAIN inbox[o] : inbox[o][i] = n

\* C1: every request gets at most one HTTP response, and once it has one, no
\* later step (an event message, a state message, a timer expiry) adds a
\* response or changes the one sent.
C1_SettlesOnce ==
    /\ [](\A c \in ReqIds : Len(req[c].res) <= 1)
    /\ [][\A c \in ReqIds : Settled(req[c]) => req'[c].res = req[c].res]_vars

\* A disarm settled by the state message disarmed, after which another state
\* message was delivered.
C1_Witness ==
    \E c \in ReqIds :
        /\ req[c].res = <<DisarmedResponse>>
        /\ lastState \in StatePayloads \ {"disarmed"}

\* C2: a settled request has no listener registered and no timer armed, and
\* the per-request listeners on the MQTT client are exactly the requests that
\* were published and are not settled, each registered once.
C2_SettledHoldsNothing ==
    /\ \A c \in ReqIds :
          Settled(req[c]) => c \notin Listening /\ req[c].responseTimeout # "armed"
    /\ Listening = {c \in Published : ~Settled(req[c])}
    /\ Len(listeners) = 1 + Cardinality(Listening)
    /\ \A c \in Listening : req[c].responseTimeout = "armed"

\* One request settled by timeout while another is still pending.
C2_Witness ==
    \E c, d \in ReqIds :
        /\ req[c].res = <<TimeoutResponse>>
        /\ req[c].responseTimeout = "fired"
        /\ d \in Listening

\* C3: every request with a non-empty code is eventually answered (requests
\* are finitely many and an answer is never withdrawn, so from some point on
\* every request made has its answer); a pending request that is answered in a
\* step that delivers no message is answered with the timeout response; and
\* the timeout response is only ever sent to a request that is still pending
\* and whose timer has run its 5000 ms down.
C3_TimeoutSettles ==
    /\ <>[](\A c \in ReqIds :
              (req[c].issued /\ req[c].code \notin {Undefined, ""}) => Settled(req[c]))
    /\ [][\A c \in ReqIds :
            (Pending(req[c]) /\ Settled(req'[c]) /\ nEvents' = nEvents)
                => req'[c].res = <<TimeoutResponse>>]_vars
    /\ [][\A c \in ReqIds :
            (req'[c].res # req[c].res /\ req'[c].res # <<>>
                /\ req'[c].res[Len(req'[c].res)].event = "TIMEOUT")
                => /\ Pending(req[c])
                   /\ c \in Published
                   /\ req[c].responseTimeout = "armed"
                   /\ req[c].remaining = 0
                   /\ req'[c].res = <<TimeoutResponse>>]_vars

\* A request answered by the timeout response.
C3_Witness ==
    \E c \in ReqIds :
        /\ req[c].res = <<TimeoutResponse>>
        /\ req[c].responseTimeout = "fired"
        /\ req[c].code = "1234"

\* C4: a request whose code is empty or missing is answered at once with the
\* validation error, and that step publishes nothing, registers no listener,
\* arms no timer and emits nothing to the sockets.
C4_EmptyCodeRejected ==
    /\ [](\A c \in ReqIds :
            (req[c].issued /\ req[c].code \in {Undefined, ""})
                => /\ req[c].res =
                        <<Json(400, FALSE, "Security code is required", Undefined, Undefined)>>
                   /\ req[c].responseTimeout = "none"
                   /\ c \notin Published
                   /\ c \notin Listening)
    /\ [][\A c \in ReqIds :
            (~req[c].issued /\ req'[c].issued /\ req'[c].code \in {Undefined, ""})
                => /\ published' = published
                   /\ listeners' = listeners
                   /\ inbox' = inbox]_vars

\* A request with an empty code was rejected while a socket was connected and
\* another request was pending.
C4_Witness ==
    \E c, d \in ReqIds, o \in SocketIds :
        /\ req[c].issued /\ req[c].code = ""
        /\ req[c].res = <<ValidationResponse>>
        /\ Pending(req[d])
        /\ sockets[o] = "connected"

\* The state each arming or trigger event stands for.
C5_Expected ==
    [ARM_AWAY |-> "armed_away", ARM_HOME |-> "armed_home", ARM_NIGHT |-> "armed_night",
     ARM_VACATION |-> "armed_vacation", ARM_CUSTOM_BYPASS |-> "armed_custom_bypass",
     TRIGGER |-> "triggered"]

\* C5: an event-topic message carrying an arming event or TRIGGER answers every
\* pending request with success, that event and the state it stands for.
C5_ArmEventSucceeds ==
    [][\A c \in ReqIds, e \in DOMAIN C5_Expected :
        (Pending(req[c]) /\ nEvents' # nEvents /\ MqttMessage(EventTopic, EventJson(e)))
            => req'[c].res =
                 <<[status |-> 200, success |-> TRUE, message |-> Undefined,
                    event |-> e, state |-> C5_Expected[e]]>>]_vars

\* issueCommand("arm_away", "1234") answered by the event ARM_AWAY.
C5_Witness ==
    \E c \in ReqIds :
        /\ req[c].mode = "arm_away" /\ req[c].code = "1234"
        /\ c \in Published
        /\ req[c].res = <<Json(200, TRUE, Undefined, "ARM_AWAY", "armed_away")>>

\* C6: the state-topic message disarmed answers a pending disarm request with
\* success and state disarmed, no event-topic message being needed.
C6_DisarmByStateTopic ==
    [][\A c \in ReqIds :
        (Pending(req[c]) /\ req[c].mode = "disarm" /\ nEvents' # nEvents
            /\ MqttMessage(StateTopic, "disarmed"))
            => req'[c].res =
                 <<[status |-> 200, success |-> TRUE, message |-> Undefined,
                    event |-> "DISARMED", state |-> "disarmed"]>>]_vars

\* issueCommand("disarm", "1234") answered by the state message disarmed.
C6_Witness ==
    \E c \in ReqIds :
        /\ req[c].mode = "disarm" /\ req[c].code = "1234"
        /\ c \in Published
        /\ lastState = "disarmed"
        /\ req[c].res = <<Json(200, TRUE, Undefined, "DISARMED", "disarmed")>>

\* C7: a pending request whose mode is an arm mode stays pending through every
\* state-topic message.
C7_ArmIgnoresStateTopic ==
    [][\A c \in ReqIds, payload \in StatePayloads :
        (Pending(req[c])
            /\ req[c].mode \in {"arm_home", "arm_away", "arm_night", "arm_vacation"}
            /\ nEvents' # nEvents /\ MqttMessage(StateTopic, payload))
            => Pending(req'[c])]_vars

\* The user message of each rejection event.
C8_Expected ==
    [FAILED_TO_ARM |-> "Failed to arm the system. Please check if all sensors are closed.",
     COMMAND_NOT_ALLOWED |-> "Command not allowed in the current state.",
     INVALID_CODE_PROVIDED |-> "Invalid security code provided.",
     NO_CODE_PROVIDED |-> "Security code is required for this operation."]

\* C8: an event-topic message carrying a rejection event answers every pending
\* request with failure, that event and the message of that event; the four
\* messages differ from each other.
C8_RejectionMessage ==
    /\ [](\A e, f \in DOMAIN C8_Expected :
            e # f => getErrorMessage(e) # getErrorMessage(f))
    /\ [][\A c \in ReqIds, e \in DOMAIN C8_Expected :
            (Pending(req[c]) /\ nEvents' # nEvents /\ MqttMessage(EventTopic, EventJson(e)))
                => req'[c].res =
                     <<[status |-> 400, success |-> FALSE, message |-> C8_Expected[e],
                        event |-> e, state |-> Undefined]>>]_vars

\* A request answered by the event INVALID_CODE_PROVIDED.
C8_Witness ==
    \E c \in ReqIds :
        /\ c \in Published
        /\ req[c].res = <<Json(400, FALSE, "Invalid security code provided.",
                               "INVALID_CODE_PROVIDED", Undefined)>>

C10_NoReplayWhenEmpty ==
    /\ [][\A o \in SocketIds :
            (sockets[o] = "unused" /\ sockets'[o] = "connected" /\ lastState = Undefined)
                => inbox' = inbox]_vars
    /\ [](\A o \in SocketIds :
            lastState = Undefined
                => \A i \in DOMAIN inbox[o] : inbox[o][i].name # "alarmStateChanged")
    /\ [][\A o \in SocketIds, payload \in StatePayloads :
            (sockets[o] = "connected"
                /\ (\A i \in DOMAIN inbox[o] : inbox[o][i].name # "alarmStateChanged")
                /\ nEvents' # nEvents /\ MqttMessage(StateTopic, payload))
                => /\ Len(inbox'[o]) = Len(inbox[o]) + 1
                   /\ SubSeq(inbox'[o], 1, Len(inbox[o])) = inbox[o]
                   /\ inbox'[o][Len(inbox'[o])].name = "alarmStateChanged"
                   /\ inbox'[o][Len(inbox'[o])].state = payload]_vars

\* Two sockets connected with the cache empty and were then both sent the first
\* state message, pending (the third and last event).
C10_Witness ==
    \E o, p \in SocketIds :
        /\ o # p
        /\ sockets[o] = "connected" /\ sockets[p] = "connected"
        /\ lastState = "pending"
        /\ nEvents = 3
        /\ \A q \in {o, p} :
              /\ Len(inbox[q]) = 1
              /\ inbox[q][1].name = "alarmStateChanged"
              /\ inbox[q][1].state = "pending"
              /\ inbox[q][1].timestamp = 2

\* The state request d would be left in by the delivery of (topic, message) had
\* no other request ever been made: its own responseHandler run on its own
\* closure, with no other listener registered.
AloneOutcome(d, topic, message) ==
    responseHandler([req |-> [x \in ReqIds |-> IF x = d THEN req[d] ELSE NoRequest],
                     listeners |-> <<StateHandler, d>>,
                     inbox |-> [o \in SocketIds |-> <<>>]],
                    d, sockets, topic, message).req[d]

\* C11: two requests outstanding together have separate hasResponded flags,
\* timers and listeners.  The step in which one of them is answered by its
\* timeout leaves the other exactly as it was: pending, its listener
\* registered, its timer armed.  After that, a message does to the other what
\* it would have done had the first request never been made.
C11_IndependentRequests ==
    /\ [][\A c \in ReqIds :
            (Pending(req[c]) /\ req'[c].res = <<TimeoutResponse>>)
                => \A d \in ReqIds \ {c} :
                      (Pending(req[d]) /\ d \in Listening)
                          => /\ req'[d] = req[d]
                             /\ ~req'[d].hasResponded
                             /\ req'[d].responseTimeout = "armed"
                             /\ d \in Listening']_vars
    /\ [][nEvents' # nEvents
            => \A c \in ReqIds :
                  req[c].res = <<TimeoutResponse>>
                      => \A d \in ReqIds \ {c} :
                            Pending(req[d])
                                => \A m \in Messages :
                                      \/ req'[d] = AloneOutcome(d, m.topic, m.payload)
                                      \/ ~MqttMessage(m.topic, m.payload)]_vars

\* Request c was answered by its timeout and request d, pending at that time,
\* was answered afterwards by the event ARM_HOME (an event delivered before the
\* timeout would have answered c as well).
C11_Witness ==
    \E c, d \in ReqIds :
        /\ c # d
        /\ req[c].res = <<TimeoutResponse>>
        /\ req[d].res = <<Json(200, TRUE, Undefined, "ARM_HOME", "armed_home")>>
        /\ req[d].responseTimeout = "cleared"

\* C12: app.locals.alarmState changes only in the step that delivers a
\* state-topic message, and then to that message's payload.  No step of a
\* command (the validation failure, the registration and publish, the publish
\* failure, the answer by an event or by the timeout) writes it, and no step
\* in which the latest state-topic payload stays the same (an event-topic
\* message among them).
C12_OnlyStateHandlerWritesCache ==
    /\ [][alarmState' # alarmState
            => \E payload \in StatePayloads :
                  /\ MqttMessage(StateTopic, payload)
                  /\ alarmState' = payload]_vars
    /\ [][(\E c \in ReqIds : req'[c] # req[c])
            => \/ alarmState' = alarmState
               \/ \E payload \in StatePayloads :
                     MqttMessage(StateTopic, payload) /\ alarmState' = payload]_vars
    /\ [][lastState' = lastState => alarmState' = alarmState]_vars

\* A socket was sent armed_home and then the alarmUpdateTimeout of an arm_away
\* request: the request was made or timed out with armed_home cached, and the
\* cache still holds armed_home.
C12_Witness ==
    \E o \in SocketIds, c \in ReqIds :
        /\ alarmState = "armed_home"
        /\ req[c].mode = "arm_away"
        /\ req[c].res = <<TimeoutResponse>>
        /\ Len(inbox[o]) = 2
        /\ inbox[o][1].name = "alarmStateChanged" /\ inbox[o][1].state = "armed_home"
        /\ inbox[o][2].name = "alarmUpdateTimeout"

\* C13: the step that delivers a state-topic message with payload p stores p in
\* app.locals.alarmState and sends every socket connected at that moment
\* exactly one notification, alarmStateChanged with state p, also when p is
\* the value already cached; a socket that is not connected is sent nothing.
C13_StateFanOut ==
    [][\A payload \in StatePayloads :
        (nEvents' # nEvents /\ MqttMessage(StateTopic, payload))
            => /\ alarmState' = payload
               /\ \A o \in SocketIds :
                    IF sockets[o] = "connected"
                    THEN /\ Len(inbox'[o]) = Len(inbox[o]) + 1
                         /\ SubSeq(inbox'[o], 1, Len(inbox[o])) = inbox[o]
                         /\ inbox'[o][Len(inbox'[o])].name = "alarmStateChanged"
                         /\ inbox'[o][Len(inbox'[o])].state = payload
                    ELSE inbox'[o] = inbox[o]]_vars

\* Sockets o and p connected, p left, and then triggered was delivered (the
\* third event): o was sent it, p was sent nothing.
C13_Witness ==
    \E o, p \in SocketIds :
        /\ o # p
        /\ sockets[o] = "connected" /\ sockets[p] = "disconnected"
        /\ alarmState = "triggered"
        /\ Len(inbox[o]) = 1
        /\ inbox[o][1].name = "alarmStateChanged"
        /\ inbox[o][1].state = "triggered"
        /\ inbox[o][1].timestamp = 2
        /\ inbox[p] = <<>>

\* The number of alarmUpdateTimeout notifications with mode m among the
\* notifications ns.
RECURSIVE TimeoutCount(_, _)
TimeoutCount(ns, m) ==
    IF ns = <<>> THEN 0
    ELSE (IF Head(ns).name = "alarmUpdateTimeout" /\ Head(ns).mode = m THEN 1 ELSE 0)
            + TimeoutCount(Tail(ns), m)

\* C14: the step in which a request with mode m is answered by its timeout
\* sends every connected socket exactly one notification, alarmUpdateTimeout
\* with mode m, and no other step sends an alarmUpdateTimeout: a socket has
\* never been sent more of them with mode m than requests with mode m timed out.
C14_TimeoutNotification ==
    /\ [][\A c \in ReqIds :
            (Pending(req[c]) /\ req'[c].res = <<TimeoutResponse>>)
                => \A o \in SocketIds :
                     IF sockets[o] = "connected"
                     THEN inbox'[o] = Append(inbox[o],
                            [name |-> "alarmUpdateTimeout", topic |-> Undefined,
                             state |-> Undefined, timestamp |-> Undefined,
                             mode |-> req[c].mode, error |-> Undefined])
                     ELSE inbox'[o] = inbox[o]]_vars
    /\ [][\A o \in SocketIds, m \in Modes :
            TimeoutCount(inbox'[o], m) # TimeoutCount(inbox[o], m)
                => \E c \in ReqIds :
                      /\ Pending(req[c]) /\ req[c].mode = m
                      /\ req'[c].res = <<TimeoutResponse>>]_vars
    /\ [](\A o \in SocketIds, m \in Modes :
            TimeoutCount(inbox[o], m)
                <= Cardinality({c \in ReqIds :
                        req[c].mode = m /\ req[c].res = <<TimeoutResponse>>}))

\* An arm_night request timed out with socket o connected, which was sent the
\* alarmUpdateTimeout with mode arm_night; a disarm request was answered by the
\* publish failure, for which o was sent no alarmUpdateTimeout.
C14_Witness ==
    \E o \in SocketIds, c, d \in ReqIds :
        /\ sockets[o] = "connected"
        /\ req[c].mode = "arm_night" /\ req[c].res = <<TimeoutResponse>>
        /\ req[d].mode = "disarm" /\ req[d].res = <<PublishErrorResponse>>
        /\ TimeoutCount(inbox[o], "arm_night") = 1
        /\ TimeoutCount(inbox[o], "disarm") = 0
        /\ Len(inbox[o]) = 2

\* C15: the step in which a pending request is answered by one of the four
\* rejection events also sends a notification to every connected socket, as
\* the timeout does.
C15_RejectionBroadcast ==
    [][\A c \in ReqIds, e \in RejectEvents :
        (Pending(req[c]) /\ nEvents' # nEvents /\ MqttMessage(EventTopic, EventJson(e)))
            => \A o \in SocketIds :
                  sockets[o] = "connected" => Len(inbox'[o]) > Len(inbox[o])]_vars

\* C16: a request whose publish throws is answered 500 {success: false,
\* message: 'Failed to send command to alarm system'} in the step that makes
\* it, which registers no listener and leaves no timer armed.  From then on the
\* request never changes: no timer of it is armed or due, it has no listener,
\* it has the one response, and no alarmUpdateTimeout is sent for it.
C16_PublishFailureStops ==
    /\ [][\A c \in ReqIds :
            (~req[c].issued /\ req'[c].issued /\ published' # published
                /\ published'[Len(published')].threw)
                => /\ req'[c].res =
                        <<[status |-> 500, success |-> FALSE,
                           message |-> "Failed to send command to alarm system",
                           event |-> Undefined, state |-> Undefined]>>
                   /\ req'[c].responseTimeout # "armed"
                   /\ listeners' = listeners]_vars
    /\ [](\A c \in ReqIds :
            (req[c].res # <<>> /\ req[c].res[1] = PublishErrorResponse)
                => /\ Len(req[c].res) = 1
                   /\ req[c].responseTimeout # "armed"
                   /\ ~TimerDue(req[c])
                   /\ c \notin Listening
                   /\ c \notin Published)
    /\ [][\A c \in ReqIds :
            req[c].res = <<PublishErrorResponse>>
                => /\ req'[c] = req[c]
                   /\ \A o \in SocketIds :
                        TimeoutCount(inbox'[o], req[c].mode)
                                # TimeoutCount(inbox[o], req[c].mode)
                            => \E d \in ReqIds \ {c} :
                                  Pending(req[d]) /\ req'[d].res = <<TimeoutResponse>>]_vars

\* A disarm request whose publish threw, with socket o connected, and the state
\* message disarmed delivered after it: the request keeps its one response.
C16_Witness ==
    \E c \in ReqIds, o \in SocketIds :
        /\ req[c].mode = "disarm"
        /\ req[c].res = <<PublishErrorResponse>>
        /\ Len(inbox[o]) = 2
        /\ inbox[o][1].name = "alarmUpdateError"
        /\ inbox[o][1].error = "MQTT_PUBLISH_ERROR"
        /\ inbox[o][2].name = "alarmStateChanged"
        /\ inbox[o][2].state = "disarmed"

\* C17: a request with a non-empty code calls mqttClient.publish exactly once,
\* in the step that makes the request, on alarmo/command with the payload
\* {command: mode, code: code} of its body; no later step (a message, a timeout)
\* publishes anything.
C17_PublishedOnce ==
    /\ [](\A c \in ReqIds :
            LET mine == {i \in DOMAIN published : published[i].by = c} IN
            /\ (req[c].issued /\ req[c].code # Undefined /\ req[c].code # "")
                  => Cardinality(mine) = 1
            /\ ~(req[c].issued /\ req[c].code # Undefined /\ req[c].code # "")
                  => mine = {}
            /\ \A i \in mine :
                  /\ published[i].topic = "alarmo/command"
                  /\ published[i].command = req[c].mode
                  /\ published[i].code = req[c].code)
    /\ [][published' # published
            => /\ Len(published') = Len(published) + 1
               /\ SubSeq(published', 1, Len(published)) = published
               /\ \E c \in ReqIds :
                     /\ ~req[c].issued /\ req'[c].issued
                     /\ published'[Len(published')].by = c]_vars

\* An arm_vacation request with code 1234 was published and timed out, and one
\* other event was handled: there is the one publish.
C17_Witness ==
    \E c \in ReqIds :
        /\ req[c].mode = "arm_vacation" /\ req[c].code = "1234"
        /\ req[c].responseTimeout = "fired"
        /\ nEvents = 2
        /\ Len(published) = 1
        /\ published[1] = [topic |-> CommandTopic, command |-> "arm_vacation",
                           code |-> "1234", by |-> c, threw |-> FALSE]

RECURSIVE StatesSent(_)
StatesSent(ns) ==
    IF ns = <<>> THEN <<>>
    ELSE (IF Head(ns).name = "alarmStateChanged" THEN <<Head(ns).state>> ELSE <<>>)
            \o StatesSent(Tail(ns))

\* The timestamps of the alarmStateChanged notifications among ns, in order.
RECURSIVE StampsSent(_)
StampsSent(ns) ==
    IF ns = <<>> THEN <<>>
    ELSE (IF Head(ns).name = "alarmStateChanged" THEN <<Head(ns).timestamp>> ELSE <<>>)
            \o StampsSent(Tail(ns))

\* Sequence s ends with sequence t.
EndsWith(s, t) ==
    Len(t) <= Len(s) /\ SubSeq(s, Len(s) - Len(t) + 1, Len(s)) = t

\* C20: the notifications of two state updates do not interleave.  A step sends
\* a socket at most one alarmStateChanged, which carries the value the cache
\* has after the step, and the step that changes the cache sends it to every
\* connected socket; so the states a connected socket was sent are the cache
\* values since it joined, in order, ending with the current one, and of two
\* connected sockets one was sent the tail of what the other was sent.
C20_UpdatesInOrder ==
    /\ [][\A o \in SocketIds :
            \/ StatesSent(inbox'[o]) = StatesSent(inbox[o])
            \/ StatesSent(inbox'[o]) = Append(StatesSent(inbox[o]), alarmState')]_vars
    /\ [][\A o \in SocketIds :
            (sockets[o] = "connected" /\ nEvents' # nEvents
                /\ \E payload \in StatePayloads : MqttMessage(StateTopic, payload))
                => StatesSent(inbox'[o]) = Append(StatesSent(inbox[o]), alarmState')]_vars
    /\ [](\A o \in SocketIds :
            (sockets[o] = "connected" /\ alarmState # Undefined)
                => /\ StatesSent(inbox[o]) # <<>>
                   /\ StatesSent(inbox[o])[Len(StatesSent(inbox[o]))] = alarmState)
    /\ [](\A o \in SocketIds :
            \A i, j \in DOMAIN StampsSent(inbox[o]) :
                i < j => StampsSent(inbox[o])[i] < StampsSent(inbox[o])[j])
    /\ [](\A o, p \in SocketIds :
            (sockets[o] = "connected" /\ sockets[p] = "connected")
                => \/ EndsWith(StatesSent(inbox[o]), StatesSent(inbox[p]))
                   \/ EndsWith(StatesSent(inbox[p]), StatesSent(inbox[o])))

\* Socket o was connected while disarmed and then armed_away were delivered,
\* and was sent them in that order.
C20_Witness ==
    \E o \in SocketIds :
        /\ sockets[o] = "connected"
        /\ StatesSent(inbox[o]) = <<"disarmed", "armed_away">>
        /\ StampsSent(inbox[o]) = <<1, 2>>
        /\ alarmState = "armed_away"

\* Badges of open sensors are on display in the status bar.
OpenSensorsDisplayed ==
    /\ page.container.exists
    /\ page.container.display # "none"
    /\ page.container.sensors > 0

\* C18: on the keypad page, a step that sends an arm command (arm_home or
\* arm_away) while open sensors are displayed is, or comes after, a press of
\* that mode's button made while its first press was still in force (within
\* its 5 s); and a first press made with open sensors displayed sends nothing.
C18_DoublePressBeforeArming ==
    /\ [][\A mode \in ArmModes :
            (OpenSensorsDisplayed /\ Len(page'.sent) > Len(page.sent)
                /\ page'.sent[Len(page'.sent)].mode = mode)
                => page'.overrideConfirmed[mode]]_vars
    /\ [][\A mode \in ArmModes :
            (OpenSensorsDisplayed /\ ~page.armButtonPressed[mode] /\ ArmButtonPress(mode))
                => /\ page'.sent = page.sent
                   /\ page'.armButtonPressed[mode]]_vars

\* What an event-topic payload makes of a request that is pending when it is
\* delivered: the parse-error answer, or the answer of the switch.
EventOutcome(payload) ==
    IF Throws(JSONparse(payload)) THEN ParseErrorResponse
    ELSE EventResponse(JSONparse(payload).event)

\* C21: the answer of a request is fixed by the first of these to happen while
\* it is pending: its timer callback (the 504), an event-topic message (the
\* answer that payload gives, whatever it is), or a state-topic message that
\* settles it (disarmed; it does settle a disarm request).  A state-topic
\* message that does not settle it leaves it as it was, and once a request is
\* answered no later message or timer changes the answer.  The first conjunct
\* is about the steps that deliver a message: no socket connects and no
\* request is made in them.
C21_FirstOccurrenceWins ==
    /\ [][(nEvents' # nEvents /\ sockets' = sockets
              /\ \A d \in ReqIds : req'[d].issued = req[d].issued)
            => \A c \in ReqIds :
                  (Pending(req[c]) /\ c \in Listening)
                      => \E m \in Messages :
                            /\ \/ /\ m.topic = EventTopic
                                  /\ req'[c].res = <<EventOutcome(m.payload)>>
                               \/ /\ m.topic = StateTopic
                                  /\ m.payload = lastState'
                                  /\ req'[c] = req[c]
                                  /\ ~(req[c].mode = "disarm" /\ m.payload = "disarmed")
                               \/ /\ m.topic = StateTopic
                                  /\ m.payload = "disarmed"
                                  /\ lastState' = "disarmed"
                                  /\ req'[c].res = <<DisarmedResponse>>
                            /\ MqttMessage(m.topic, m.payload)]_vars
    /\ [][\A c \in ReqIds :
            (Pending(req[c]) /\ req[c].responseTimeout = "armed"
                /\ req'[c].responseTimeout = "fired")
                => req'[c].res = <<TimeoutResponse>>]_vars
    /\ [][\A c \in ReqIds : Settled(req[c]) => req'[c].res = req[c].res]_vars

\* A disarm request timed out with socket o connected, and the state message
\* disarmed was delivered after that (the third event): the 504 stands.
C21_Witness ==
    \E c \in ReqIds, o \in SocketIds :
        /\ req[c].mode = "disarm"
        /\ req[c].res = <<TimeoutResponse>>
        /\ Len(inbox[o]) = 2
        /\ inbox[o][1].name = "alarmUpdateTimeout"
        /\ inbox[o][2].name = "alarmStateChanged"
        /\ inbox[o][2].state = "disarmed"
        /\ inbox[o][2].timestamp = 2

\* C22: an event-topic message whose payload is not JSON, or is the JSON null
\* (no event can be read from it), answers every request pending at that
\* moment with the parse error: status 500, success false, a message and no
\* event; the request's timer is cleared and its listener removed.
C22_ParseErrorSettles ==
    [][(nEvents' # nEvents /\ sockets' = sockets /\ lastState' = lastState)
        => \A c \in ReqIds :
              (Pending(req[c]) /\ c \in Listening)
                  => \A payload \in {"not json", "null"} :
                        \/ /\ Len(req'[c].res) = 1
                           /\ req'[c].res[1].status = 500
                           /\ req'[c].res[1].success = FALSE
                           /\ req'[c].res[1].message = "Failed to parse alarm system response"
                           /\ req'[c].res[1].event = Undefined
                           /\ req'[c].res[1].state = Undefined
                           /\ req'[c].hasResponded
                           /\ req'[c].responseTimeout = "cleared"
                           /\ c \notin Listening'
                        \/ ~MqttMessage(EventTopic, payload)]_vars

\* A request got the parse error as its only answer and its timer was cleared.
C22_Witness ==
    \E c \in ReqIds :
        /\ req[c].res = <<Json(500, FALSE, "Failed to parse alarm system response",
                               Undefined, Undefined)>>
        /\ req[c].responseTimeout = "cleared"
        /\ c \notin Listening
        /\ published # <<>>
        /\ ~published[1].threw

\* The well-formed event payloads delivered here whose event is none of the
\* six arming and trigger codes and none of the four rejection codes, each
\* with the event the answer carries: an object with no event, and DISARM.
C23_Unrecognized ==
    {[payload |-> "{}", event |-> Undefined],
     [payload |-> "{\"event\":\"DISARM\"}", event |-> "DISARM"]}

\* C23: such a message answers every request pending at that moment with the
\* unrecognized-event error (status 400, success false, 'Unrecognized alarm
\* event received'); the request is not left pending.
C23_UnrecognizedEventSettles ==
    [][(nEvents' # nEvents /\ sockets' = sockets /\ lastState' = lastState)
        => \A c \in ReqIds :
              (Pending(req[c]) /\ c \in Listening)
                  => \A u \in C23_Unrecognized :
                        \/ /\ ~Pending(req'[c])
                           /\ Len(req'[c].res) = 1
                           /\ req'[c].res[1].status = 400
                           /\ req'[c].res[1].success = FALSE
                           /\ req'[c].res[1].message = "Unrecognized alarm event received"
                           /\ req'[c].res[1].event = u.event
                           /\ req'[c].res[1].state = Undefined
                           /\ req'[c].hasResponded
                           /\ c \notin Listening'
                        \/ ~MqttMessage(EventTopic, u.payload)]_vars

\* A disarm request was answered with the unrecognized-event error for the
\* event DISARM.
C23_Witness ==
    \E c \in ReqIds :
        /\ req[c].mode = "disarm"
        /\ req[c].res = <<Json(400, FALSE, "Unrecognized alarm event received",
                               "DISARM", Undefined)>>
        /\ req[c].responseTimeout = "cleared"

\* C24: a request with a code goes from made to published to answered and
\* stays answered.  The step that makes it registers its listener, arms its
\* timer and attempts the publish in one run of the handler, so a request that
\* is pending has its command published and its listener registered: every
\* message delivered after the publish reaches its responseHandler.  An answer
\* other than the validation error and the publish failure is only ever given
\* to a request whose command was published, and an answered request never
\* changes again nor listens again.
C24_Lifecycle ==
    /\ [][\A c \in ReqIds :
            /\ Settled(req[c]) => (req'[c] = req[c] /\ c \notin Listening')
            /\ Pending(req[c])
                  => /\ req'[c].issued
                     /\ req'[c].mode = req[c].mode
                     /\ req'[c].code = req[c].code
                     /\ Pending(req'[c]) => c \in Listening'
            /\ (~req[c].issued /\ req'[c].issued /\ req'[c].code \notin {Undefined, ""})
                  => /\ Len(published') = Len(published) + 1
                     /\ published'[Len(published')].by = c
                     /\ \/ /\ ~published'[Len(published')].threw
                           /\ Pending(req'[c])
                           /\ req'[c].responseTimeout = "armed"
                           /\ listeners' = Append(listeners, c)
                        \/ /\ published'[Len(published')].threw
                           /\ req'[c].res[1].message = "Failed to send command to alarm system"
                           /\ listeners' = listeners]_vars
    /\ [](\A c \in ReqIds :
            Pending(req[c])
                => /\ c \in Listening
                   /\ \E i \in DOMAIN published :
                         published[i].by = c /\ ~published[i].threw)
    /\ [](\A c \in ReqIds :
            (Settled(req[c])
                /\ req[c].res[1].message
                      \notin {"Security code is required",
                              "Failed to send command to alarm system"})
                => \E i \in DOMAIN published :
                      published[i].by = c /\ ~published[i].threw)

\* Request c was published and answered by the event ARM_NIGHT; request d,
\* made after it, is published and pending with its listener registered.
C24_Witness ==
    \E c, d \in ReqIds :
        /\ req[c].res = <<Json(200, TRUE, Undefined, "ARM_NIGHT", "armed_night")>>
        /\ Pending(req[d])
        /\ listeners = <<StateHandler, d>>
        /\ Len(published) = 2
        /\ published[1].by = c /\ published[2].by = d

\* C25: a step that delivers a message while two requests are pending, and is
\* not the delivery of a state-topic message, is the delivery of an event-topic
\* message that answers both of them, with the one answer its payload gives:
\* neither stays pending, whatever their modes.
C25_EventSettlesAllPending ==
    [][(nEvents' # nEvents /\ sockets' = sockets
            /\ \A e \in ReqIds : req'[e].issued = req[e].issued)
        => \A c \in ReqIds :
              Pending(req[c])
                  => \A d \in ReqIds \ {c} :
                        Pending(req[d])
                            => \/ \E payload \in EventPayloads :
                                     /\ req'[c].res = <<EventOutcome(payload)>>
                                     /\ req'[d].res = req'[c].res
                                     /\ {c, d} \cap Listening' = {}
                                     /\ MqttMessage(EventTopic, payload)
                               \/ /\ lastState' # Undefined
                                  /\ MqttMessage(StateTopic, lastState')]_vars

\* An arm_home request and a disarm request, pending together, were both
\* answered by the one event ARM_AWAY.
C25_Witness ==
    \E c, d \in ReqIds :
        /\ req[c].mode = "arm_home"
        /\ req[d].mode = "disarm"
        /\ req[c].res = <<Json(200, TRUE, Undefined, "ARM_AWAY", "armed_away")>>
        /\ req[d].res = req[c].res
        /\ nEvents = 3

\* The state each mode asks for.
C26_Requested ==
    [arm_home |-> "armed_home", arm_away |-> "armed_away", arm_night |-> "armed_night",
     arm_vacation |-> "armed_vacation", disarm |-> "disarmed"]

\* C26: a request answered with success is answered with the state its mode
\* asked for.
C26_SuccessMatchesMode ==
    \A c \in ReqIds :
        (Settled(req[c]) /\ req[c].res[1].success /\ req[c].mode \in DOMAIN C26_Requested)
            => req[c].res[1].state = C26_Requested[req[c].mode]

\* The state payloads other than disarmed.
C27_OtherStates ==
    {"armed_home", "armed_away", "armed_night", "armed_vacation", "armed_custom_bypass",
     "pending", "arming", "triggered"}

\* C27: a state-topic message with a payload other than disarmed leaves every
\* pending request exactly as it was, whatever its mode: unanswered, its
\* listener registered, its timer armed with the time it had left.
C27_OtherStatesDoNotSettle ==
    [][(nEvents' # nEvents /\ lastState' \in C27_OtherStates /\ sockets' = sockets)
        => \A c \in ReqIds :
              Pending(req[c])
                  => \/ /\ req'[c] = req[c]
                        /\ Pending(req'[c])
                        /\ req'[c].responseTimeout = "armed"
                        /\ c \in Listening'
                        /\ listeners' = listeners
                     \/ ~MqttMessage(StateTopic, lastState')]_vars

\* Socket o connected, a disarm request was made, and the state message
\* triggered was delivered third: the request is still pending.
C27_Witness ==
    \E c \in ReqIds, o \in SocketIds :
        /\ req[c].mode = "disarm"
        /\ Pending(req[c])
        /\ c \in Listening
        /\ req[c].responseTimeout = "armed"
        /\ Len(inbox[o]) = 1
        /\ inbox[o][1].name = "alarmStateChanged"
        /\ inbox[o][1].state = "triggered"
        /\ inbox[o][1].timestamp = 2

\* C28: server.js's state handler is the first 'message' listener of the
\* client at all times, so it runs before every responseHandler; and in the
\* step that answers a pending request with the DISARMED success, the cache
\* becomes disarmed and every connected socket is sent, as the last thing it
\* is sent, the alarmStateChanged of that message.
C28_BroadcastBeforeDisarmSuccess ==
    /\ [](/\ listeners # <<>>
          /\ listeners[1] = StateHandler
          /\ \A i \in DOMAIN listeners : i > 1 => listeners[i] # StateHandler)
    /\ [][\A c \in ReqIds :
            (Pending(req[c]) /\ req'[c].res # <<>> /\ req'[c].res[1].event = "DISARMED")
                => /\ alarmState' = "disarmed"
                   /\ getState(alarmState').state = "disarmed"
                   /\ \A o \in SocketIds :
                        sockets[o] = "connected"
                            => /\ Len(inbox'[o]) = Len(inbox[o]) + 1
                               /\ SubSeq(inbox'[o], 1, Len(inbox[o])) = inbox[o]
                               /\ inbox'[o][Len(inbox'[o])] =
                                    [name |-> "alarmStateChanged", topic |-> "alarmo/state",
                                     state |-> "disarmed", timestamp |-> nEvents,
                                     mode |-> Undefined, error |-> Undefined]]_vars

\* With socket o connected, a disarm request was answered by the state message
\* disarmed, the third event: the socket was sent disarmed and the cache holds
\* it.
C28_Witness ==
    \E c \in ReqIds, o \in SocketIds :
        /\ req[c].mode = "disarm"
        /\ req[c].res = <<DisarmedResponse>>
        /\ alarmState = "disarmed"
        /\ sockets[o] = "connected"
        /\ Len(inbox[o]) = 1
        /\ inbox[o][1].name = "alarmStateChanged"
        /\ inbox[o][1].state = "disarmed"
        /\ inbox[o][1].timestamp = 2

\* The number of alarmUpdateError notifications among the notifications ns.
RECURSIVE ErrorCount(_)
ErrorCount(ns) ==
    IF ns = <<>> THEN 0
    ELSE (IF Head(ns).name = "alarmUpdateError" THEN 1 ELSE 0) + ErrorCount(Tail(ns))

\* The number of alarmUpdateError notifications with the given error code
\* among the notifications ns.
RECURSIVE ErrorCodeCount(_, _)
ErrorCodeCount(ns, error) ==
    IF ns = <<>> THEN 0
    ELSE (IF Head(ns).name = "alarmUpdateError" /\ Head(ns).error = error THEN 1 ELSE 0)
            + ErrorCodeCount(Tail(ns), error)

\* C29: in every step, each connected socket is sent one alarmUpdateError with
\* error PARSE_ERROR for each request the step answers with the parse error,
\* one with error MQTT_PUBLISH_ERROR for the request the step answers with the
\* publish failure, and no other alarmUpdateError: none for a request answered
\* with success, a rejection, the timeout or the validation error.  A socket
\* that is not connected is sent none.
C29_ErrorNotification ==
    [][\A o \in SocketIds :
        IF sockets[o] = "connected"
        THEN /\ ErrorCodeCount(inbox'[o], "PARSE_ERROR")
                    - ErrorCodeCount(inbox[o], "PARSE_ERROR")
                  = Cardinality({c \in ReqIds :
                        /\ Pending(req[c])
                        /\ req'[c].res # <<>>
                        /\ req'[c].res[1].message = "Failed to parse alarm system response"})
             /\ ErrorCodeCount(inbox'[o], "MQTT_PUBLISH_ERROR")
                    - ErrorCodeCount(inbox[o], "MQTT_PUBLISH_ERROR")
                  = Cardinality({c \in ReqIds :
                        /\ ~req[c].issued
                        /\ req'[c].res # <<>>
                        /\ req'[c].res[1].message = "Failed to send command to alarm system"})
             /\ ErrorCount(inbox'[o]) - ErrorCount(inbox[o])
                  = Cardinality({c \in ReqIds :
                        /\ ~Settled(req[c])
                        /\ req'[c].res # <<>>
                        /\ req'[c].res[1].status = 500})
        ELSE ErrorCount(inbox'[o]) = ErrorCount(inbox[o])]_vars

\* With socket o connected, a request was answered with the parse error: the
\* socket was sent the one alarmUpdateError, with error PARSE_ERROR.
C29_Witness ==
    \E c \in ReqIds, o \in SocketIds :
        /\ req[c].res = <<ParseErrorResponse>>
        /\ sockets[o] = "connected"
        /\ Len(inbox[o]) = 1
        /\ inbox[o][1].name = "alarmUpdateError"
        /\ inbox[o][1].error = "PARSE_ERROR"

\* C30: a press of enter with a code entered sends exactly one command: the
\* pending arm mode with that code if one is pending, which is then no longer
\* pending, otherwise disarm with that code.  A press of enter with no code
\* entered sends nothing.  Either way no code is entered afterwards.
C30_EnterSendsOneCommand ==
    [][KeyPress("enter")
        => /\ page'.currentCode = ""
           /\ page'.pinLength = 0
           /\ IF page.currentCode # ""
              THEN /\ Len(page'.sent) = Len(page.sent) + 1
                   /\ SubSeq(page'.sent, 1, Len(page.sent)) = page.sent
                   /\ page'.sent[Len(page'.sent)].code = page.currentCode
                   /\ IF page.pendingArmMode \in ArmModes
                      THEN /\ page'.sent[Len(page'.sent)].mode = page.pendingArmMode
                           /\ page'.pendingArmMode = Null
                      ELSE /\ page'.sent[Len(page'.sent)].mode = "disarm"
                           /\ page'.pendingArmMode = page.pendingArmMode
              ELSE /\ page'.sent = page.sent
                   /\ page'.pendingArmMode = page.pendingArmMode]_vars

\* The arm_away command was sent with the one-digit code 1 (the arm buttons
\* send only codes of four digits, so enter sent it), no mode is pending and
\* no code is entered.
C30_Witness ==
    /\ page.sent = <<[mode |-> "arm_away", code |-> "1"]>>
    /\ page.pendingArmMode = Null
    /\ page.currentCode = ""
    /\ page.pinLength = 0

\* C31: whatever keys and arm buttons were pressed, pinLength is the number of
\* characters of currentCode and is at most 4; and a digit pressed with four
\* digits entered leaves the code and its length as they were.
C31_PinLengthIsCodeLength ==
    /\ [](/\ page.pinLength = Length(page.currentCode)
          /\ page.pinLength <= 4
          /\ page.currentCode \in {"", "1", "11", "111", "1111"})
    /\ [][\A key \in Digits :
            (page.pinLength = 4 /\ KeyPress(key))
                => /\ page'.currentCode = page.currentCode
                   /\ page'.pinLength = 4]_vars

\* Four digits were entered and an arm button took them: the command went out
\* with the four-digit code, and the code and its length are back to nothing.
C31_Witness ==
    /\ page.sent = <<[mode |-> "arm_home", code |-> "1111"]>>
    /\ page.currentCode = ""
    /\ page.pinLength = 0

\* C32: the handler of an alarmStateChanged notification plays a state sound
\* only if a notification was received before it since page load and the
\* state of that previous notification differs from its own; the sound is then
\* the one of its state.  The state the page tracks is the state of the latest
\* notification received, a disconnect leaves it as it is, and so the
\* notification replayed after a reconnect with the same state plays nothing.
\* The state of the notification a step delivers is lastNotified after it.
C32_StateSoundOnlyOnChange ==
    /\ [][\/ page'.stateSound = Null
          \/ /\ page.lastNotified # Null
             /\ page.lastNotified # page'.lastNotified
             /\ page'.stateSound = playAlarmStateSound(page'.lastNotified)
          \/ ~AlarmStateChanged(page'.lastNotified)]_vars
    /\ [][\/ page'.stateSound = Null
          \/ page.lastNotified # page'.lastNotified
          \/ ~AlarmStateChanged(page.lastNotified)]_vars
    /\ [](/\ page.currentAlarmState = page.lastNotified
          /\ page.initialStateLoaded <=> page.lastNotified # Null)
    /\ [][\/ /\ page'.currentAlarmState = page.currentAlarmState
             /\ page'.initialStateLoaded = page.initialStateLoaded
             /\ page'.stateSound = page.stateSound
          \/ ~SocketDisconnect]_vars

\* The notification disarmed, not the first one, changed the state and played
\* the disarmed sound; the socket then disconnected (the arm buttons are
\* hidden) and the page still tracks disarmed.
C32_Witness ==
    /\ page.stateSound = "disarmed"
    /\ page.currentAlarmState = "disarmed"
    /\ page.initialStateLoaded
    /\ ~page.lastButtonState

\* The entities of data, in the order of data, whose entity_id is one of ids.
RECURSIVE C33_Expected(_, _)
C33_Expected(data, ids) ==
    IF data = <<>> THEN <<>>
    ELSE (IF Head(data).entity_id \in {ids[i] : i \in DOMAIN ids}
          THEN <<Head(data)>> ELSE <<>>) \o C33_Expected(Tail(data), ids)

\* C33: a call of getStates whose entityIds is missing, null or not an array
\* is answered 400 with an error and queries nothing; one whose entityIds is
\* the empty array is answered with the empty list and queries nothing; any
\* other call queries the inventory once and is answered, when the query
\* succeeds, with exactly the entities of the inventory whose entity_id was
\* asked for (an id the inventory does not hold adds nothing and is no error),
\* and with 500 and an error when the query fails.
C33_SensorLookup ==
    /\ [][\A body \in Bodies :
            GetStates(body)
                => IF body.kind # "array"
                   THEN /\ lookup'.phase = "done"
                        /\ lookup'.res.status = 400
                        /\ lookup'.res.has = "error"
                        /\ lookup'.queries = 0
                   ELSE IF body.ids = <<>>
                   THEN /\ lookup'.phase = "done"
                        /\ lookup'.res.status = 200
                        /\ lookup'.res.has = "entities"
                        /\ lookup'.res.entities = <<>>
                        /\ lookup'.queries = 0
                   ELSE /\ lookup'.phase = "waiting"
                        /\ lookup'.queries = 1
                        /\ lookup'.res.has = "nothing"]_vars
    /\ [][\A data \in Inventories :
            StatesFetched(data)
                => /\ lookup'.phase = "done"
                   /\ lookup'.res.status = 200
                   /\ lookup'.res.has = "entities"
                   /\ lookup'.res.entities = C33_Expected(data, lookup.body.ids)
                   /\ \A i \in DOMAIN lookup'.res.entities :
                         /\ lookup'.res.entities[i].entity_id
                               \in {lookup.body.ids[j] : j \in DOMAIN lookup.body.ids}
                         /\ \E j \in DOMAIN data : data[j] = lookup'.res.entities[i]
                   /\ lookup'.queries = 1]_vars
    /\ [][StatesFetchFailed
            => /\ lookup'.phase = "done"
               /\ lookup'.res.status = 500
               /\ lookup'.res.has = "error"
               /\ lookup'.res.entities = <<>>]_vars
    /\ [](lookup.res.has = "entities" /\ lookup.body.ids # <<>>
            => lookup.res.entities = C33_Expected(lookup.data, lookup.body.ids))

\* The door and the motion sensor were asked for, the inventory held the
\* window and the door: the answer is the door alone.
C33_Witness ==
    /\ lookup.phase = "done"
    /\ lookup.body.ids = <<"binary_sensor.door", "binary_sensor.motion">>
    /\ lookup.data = <<[entity_id |-> "binary_sensor.window", state |-> "on"],
                       [entity_id |-> "binary_sensor.door", state |-> "on"]>>
    /\ lookup.res = EntitiesResponse(<<[entity_id |-> "binary_sensor.door", state |-> "on"]>>)

====
